---- MODULE Spec2Model ----
(***************************************************************************)
(* One conversation turn of the k8s helper: the async generator            *)
(* chat_with_early_stop_streaming (main_no_fm.py), the tasks it starts on  *)
(* the asyncio event loop (get_summary, handle_tool_call, the early-stop   *)
(* evaluator) and the collaborators it talks to (the three model clients,  *)
(* the command processes, the consumer of the tuple stream).               *)
(*                                                                         *)
(* Scheduling is asyncio's: one task runs at a time, from the point where  *)
(* it is resumed to its next suspension (one action of this module), and   *)
(* the tasks that are ready run in FIFO order (the sequence `ready`).      *)
(* Model responses, process exits and the consumer asking for the next     *)
(* tuple are events of the environment and happen at any time.             *)
(*                                                                         *)
(* ExecutorSpec is one call of run_kubectl_impl or run_helm_impl (tools.py) *)
(* made by itself, with every combination of its options and with the      *)
(* process's output as bytes; CmdSpec is the same call over its optional    *)
(* parameters. FrontSpec is the front end of main(): respond consuming the  *)
(* tuples of its turns and handle_chatbot_clear, sharing the two globals.   *)
(* GrafanaSpec is one call of grafana_api_request_impl (tools.py).          *)
(***************************************************************************)
EXTENDS Integers, Sequences, FiniteSets, TLC

\* ---------------------------------------------------------------- bounds
\* Primary-model calls explored in one turn (the code has no limit of its own).
StepBound == 2
\* Tool calls the primary model may request in one response.
MaxCalls == 2

\* ------------------------------------------------------------- constants
DEFAULT_EARLY_STOPPING_REASONING == "By default"

\* The text both the generator and respond() start from.
NoEvaluationYet == "**Early Stop Status**\n\nNo evaluation yet."

k8s_helper_instructions == "k8s helper instructions"

\* The user's message of this turn.
message == "list pods"

\* ------------------------------------------------------------ data model
\* interfaces.ExecutionResult
ExecutionResult(cmd, returncode, stdout, stderr, parsed) ==
    [cmd |-> cmd, returncode |-> returncode, stdout |-> stdout,
     stderr |-> stderr, json |-> parsed]

\* interfaces.EarlyStopEvaluation
EarlyStopEvaluation(should_stop, reasoning) ==
    [should_stop |-> should_stop, reasoning |-> reasoning]

\* result.model_dump_json(): the JSON object of the record, as its ordered
\* list of key/value members.
model_dump_json(r) ==
    << <<"cmd", r.cmd>>, <<"returncode", r.returncode>>, <<"stdout", r.stdout>>,
       <<"stderr", r.stderr>>, <<"json", r.json>> >>

\* json.loads(content)[key]: the value of the member `key` of a JSON object.
json_loads_get(content, key) ==
    LET i == CHOOSE j \in 1..Len(content) : content[j][1] = key
    IN  content[i][2]

\* Tool names the primary model may put in a tool call: the two registered
\* tools and one name that is not registered.
ToolNames == {"run_kubectl", "run_helm", "no_such_tool"}

\* The arguments the primary model sends with a call (json.loads(arguments)).
\* An optional parameter is <<>> when absent (None) and <<text>> when given.
ToolArguments(name) ==
    CASE name = "run_kubectl" ->
           [args |-> <<"get", "pods">>, namespace |-> <<"default">>,
            context |-> <<>>, kubeconfig |-> <<>>, repo_config |-> <<>>,
            registry_config |-> <<>>, check |-> FALSE]
      [] name = "run_helm" ->
           [args |-> <<"list">>, namespace |-> <<>>, context |-> <<>>,
            kubeconfig |-> <<>>, repo_config |-> <<>>,
            registry_config |-> <<>>, check |-> TRUE]
      [] OTHER ->
           [args |-> <<>>, namespace |-> <<>>, context |-> <<>>,
            kubeconfig |-> <<>>, repo_config |-> <<>>,
            registry_config |-> <<>>, check |-> FALSE]

\* The i-th tool call of the response of step s.
ToolCall(s, i, name) ==
    [id |-> "call_" \o ToString(s) \o "_" \o ToString(i), name |-> name,
     arguments |-> ToolArguments(name)]

\* The lists of 1..MaxCalls tool calls the response of step s may carry: any
\* tool name in the last call, run_kubectl in the calls before it.
ToolCallLists(s) ==
    { [i \in 1..n |-> ToolCall(s, i, IF i < n THEN "run_kubectl" ELSE last)] :
        n \in 1..MaxCalls, last \in ToolNames }

\* What a command process can do once spawned: exit with a code and output,
\* or still run when the timeout fires.
ProcessOutcomes ==
    { [kind |-> "exit", returncode |-> 0, stdout |-> "pod-a\npod-b\n", stderr |-> ""],
      [kind |-> "exit", returncode |-> 1, stdout |-> "", stderr |-> "connection refused"],
      [kind |-> "timeout", returncode |-> 0, stdout |-> "", stderr |-> ""] }

\* What the evaluator model can answer: a JSON document that validates as an
\* EarlyStopEvaluation, or anything else.
EvaluatorOutcomes ==
    { [valid |-> TRUE, should_stop |-> b, reasoning |-> r] :
        b \in BOOLEAN, r \in {"enough", DEFAULT_EARLY_STOPPING_REASONING} }
    \cup { [valid |-> FALSE, should_stop |-> FALSE, reasoning |-> ""] }

\* What the summarizer run can end with.
SummarizerOutcomes == { [ok |-> TRUE, summary |-> "new summary"],
                        [ok |-> FALSE, summary |-> ""] }

\* Prior history and running summary handed to the turn by the front end: the
\* turn follows an earlier exchange.
TurnInputs ==
    { [history |-> << [role |-> "user", content |-> "hello"],
                      [role |-> "assistant", content |-> "hi"] >>,
       current_summary |-> "old summary"] }

\* Optional[...] values: <<>> is None, <<v>> is the value v.
None == <<>>

\* --------------------------------------------------- the command executor
\* shutil.which(...) when the binary is on PATH.
ProgramPath(name) ==
    IF name = "run_kubectl" THEN "/usr/bin/kubectl" ELSE "/usr/bin/helm"

\* `if value: cmd += [flag, value]`: None and "" add nothing.
OptionalFlag(flag, value) ==
    IF value # None /\ value # <<"">> THEN <<flag, value[1]>> ELSE <<>>

\* The kubectl command with --context put before --namespace.
kubectl_cmd_context_first(path, a) ==
    <<path>> \o a.args \o OptionalFlag("--context", a.context)
             \o OptionalFlag("--namespace", a.namespace)
             \o OptionalFlag("--kubeconfig", a.kubeconfig)

\* run_kubectl_impl: cmd = [kubectl_path] + arg_list + populated flags.
kubectl_cmd(path, a) ==
    <<path>> \o a.args \o OptionalFlag("--namespace", a.namespace)
             \o OptionalFlag("--context", a.context)
             \o OptionalFlag("--kubeconfig", a.kubeconfig)

\* run_helm_impl: cmd = [helm_path] + arg_list + populated flags.
helm_cmd(path, a) ==
    <<path>> \o a.args \o OptionalFlag("--namespace", a.namespace)
             \o OptionalFlag("--kube-context", a.context)
             \o OptionalFlag("--kubeconfig", a.kubeconfig)
             \o OptionalFlag("--repository-config", a.repo_config)
             \o OptionalFlag("--registry-config", a.registry_config)

\* The lookup with a last branch that catches every other name instead of
\* raising.
get_tool_by_name_without_raise(name) ==
    IF name = "run_kubectl" THEN "run_kubectl_impl" ELSE "run_helm_impl"

\* get_tool_by_name: the implementation registered under `name`, or the
\* ValueError it raises.
get_tool_by_name(name) ==
    CASE name = "run_kubectl" -> "run_kubectl_impl"
      [] name = "run_helm"    -> "run_helm_impl"
      [] OTHER                -> "ValueError"

\* The argv the implementation `tool` builds for the arguments `a`.
BuildCmd(tool, a) ==
    IF tool = "run_kubectl_impl"
    THEN kubectl_cmd(ProgramPath("run_kubectl"), a)
    ELSE helm_cmd(ProgramPath("run_helm"), a)

\* Best-effort JSON detection of the captured stdout. The texts the
\* processes of this model print do not start with '{' or '[', and the
\* empty text is skipped by `if capture_output and stdout`.
ParsedJson(stdout) == None

\* `if check and returncode != 0: raise CalledProcessError`
RaisesCalledProcessError(a, outcome) == a.check /\ outcome.returncode # 0

\* The ExecutionResult returned for a process that exited.
ResultOf(cmd, outcome) ==
    ExecutionResult(cmd, outcome.returncode, outcome.stdout, outcome.stderr,
                    ParsedJson(outcome.stdout))

\* ------------------------------------------------------------------ state
VARIABLES
    history,                \* the front end's history (input of the turn)
    current_summary,        \* the running summary (input of the turn)
    pc,                     \* where the generator is
    messages,               \* the conversation sent to the primary model
    step,                   \* loop counter
    response,               \* the primary model's last response
    early_stop_info,        \* early-stop status text
    processing_info,        \* processing status text
    early_stop_evaluation,  \* the evaluation obtained from the join
    results,                \* the tool messages obtained from the join
    final_response,         \* the answer of the final tuple
    emitted,                \* the tuples yielded so far
    error,                  \* the exception raised out of the generator
    ready,                  \* asyncio's queue of tasks ready to run
    new_summary_promise,    \* the get_summary task
    tool_task,              \* the handle_tool_call task
    process,                \* the command process of the running tool call
    early_stop_evaluator,   \* the evaluation coroutine / task
    gather,                 \* the future of asyncio.gather(...)
    modelCalls,             \* primary model calls made in this turn
    tool_steps,             \* per step with tool calls: what was evaluated
    execs,                  \* executions of the current step's tool task
    executor_call,          \* an executor call made outside a turn
    front,                  \* the front end: its globals, outputs and respond
    grafana_call            \* a call of grafana_api_request_impl

\* The state of a turn.
turn == << history, current_summary, pc, messages, step, response,
           early_stop_info, processing_info, early_stop_evaluation, results,
           final_response, emitted, error, ready, new_summary_promise,
           tool_task, process, early_stop_evaluator, gather, modelCalls,
           tool_steps, execs >>

\* What the steps of a turn leave alone.
outside == << executor_call, front, grafana_call >>

vars == << turn, outside >>

inputs     == << history, current_summary >>
locals     == << messages, step, response, early_stop_info, processing_info,
                 early_stop_evaluation, results, final_response >>
toolVars   == << tool_task, process, execs >>

NoResponse == [finish_reason |-> "", tool_calls |-> <<>>, content |-> ""]
NoProcess  == [st |-> "none", cmd |-> <<>>, outcome |-> None]
NoTask     == [st |-> "none", i |-> 0, calls |-> <<>>, results |-> <<>>, exc |-> ""]
NoEvaluator == [kind |-> "none", st |-> "none", outcome |-> None,
                evaluation |-> EarlyStopEvaluation(FALSE, ""), exc |-> ""]
NoGather   == [st |-> "none", exc |-> ""]
NoException == [type |-> "", args |-> <<>>]
NoCall     == [st |-> "none"]

\* The coroutine object alone, never handed to create_task: its body runs
\* only when it is awaited.
summary_coroutine_not_scheduled ==
    [st |-> "coroutine", input |-> None, outcome |-> None]

\* asyncio.create_task(get_summary(current_summary, messages)): the task is
\* scheduled and will take its first step when the creator next suspends.
create_summary_task ==
    [st |-> "scheduled", input |-> None, outcome |-> None]

\* Lines 212-214: the front end as launched: the globals at their first
\* values, an empty chat, the two panels at their placeholders, no respond
\* running, no change event of the chatbot to handle. `cleared` and `turns`
\* record, for the properties, whether the chat has been cleared with no
\* later turn finished, and the turns submitted.
FrontStart ==
    [current_summary |-> "", current_early_stop_info |-> NoEvaluationYet,
     chatbot |-> <<>>, early_stop_status |-> NoEvaluationYet,
     summary_display |-> "**Current Summary**\n\nNo summary yet.",
     respond |-> [st |-> "idle"], changed |-> FALSE, cleared |-> FALSE,
     turns |-> 0]

\* The front end is left as launched.
NoFrontEvent == front = FrontStart

\* No Grafana request is made.
NoGrafanaCall == grafana_call = NoCall

\* A turn about to start.
TurnInit ==
    /\ \E inp \in TurnInputs :
          /\ history = inp.history
          /\ current_summary = inp.current_summary
    /\ pc = "start"
    /\ messages = <<>>
    /\ step = 0
    /\ response = NoResponse
    /\ early_stop_info = NoEvaluationYet
    /\ processing_info = "Processing..."
    /\ early_stop_evaluation = EarlyStopEvaluation(FALSE, "")
    /\ results = <<>>
    /\ final_response = ""
    /\ emitted = <<>>
    /\ error = ""
    /\ ready = <<>>
    /\ new_summary_promise = [st |-> "none", input |-> None, outcome |-> None]
    /\ tool_task = NoTask
    /\ process = NoProcess
    /\ early_stop_evaluator = NoEvaluator
    /\ gather = NoGather
    /\ modelCalls = 0
    /\ tool_steps = <<>>
    /\ execs = <<>>

\* The front end submits a turn; no executor call is made outside it.
Init == TurnInit /\ executor_call = NoCall /\ NoFrontEvent /\ NoGrafanaCall

\* ------------------------------------------------------- the event loop
\* The event loop resumes the task at the head of the ready queue.
Runs(task) == ready # <<>> /\ Head(ready) = task

\* The join firing as soon as either child has ended.
GatherAfterFirstCompleted(g, exc, otherDone) ==
    IF g.st # "pending" THEN g
    ELSE [st |-> "fired", exc |-> exc]

\* The done-callbacks of gather's two children: the future fires with the
\* first exception of a child, or when both children have returned.
GatherAfter(g, exc, otherDone) ==
    IF g.st # "pending" THEN g
    ELSE IF exc # "" THEN [st |-> "fired", exc |-> exc]
    ELSE IF otherDone THEN [st |-> "fired", exc |-> ""]
    ELSE g

\* The generator, suspended in `await asyncio.gather(...)`, is made ready
\* when the future fires.
WakeOnGather(g1, g2) ==
    IF g1.st = "pending" /\ g2.st = "fired" THEN <<"main">> ELSE <<>>

\* ----------------------------------------------------------- the generator
\* The trigger without the test of the number of tool calls.
EvaluationTriggeredOnAnyCount(s, tool_calls) == s = 1

\* `if step == 1 and len(tool_calls) == 1`
EvaluationTriggered(s, tool_calls) == s = 1 /\ Len(tool_calls) = 1

RECURSIVE JoinNames(_)
JoinNames(tool_calls) ==
    IF tool_calls = <<>> THEN ""
    ELSE "\nRunning tool " \o Head(tool_calls).name \o JoinNames(Tail(tool_calls))

\* processing_info = f"Calling tools... {one line per requested tool}"
ProcessingInfo(tool_calls) == "Calling tools... " \o JoinNames(tool_calls)

\* str(bool) of an f-string
BoolText(b) == IF b THEN "True" ELSE "False"

\* The early-stop report shown once an evaluation carries a reasoning other
\* than the default one.
EarlyStopReport(evaluation) ==
    "**Early Stop Status**\n\n**Should Stop:** " \o BoolText(evaluation.should_stop)
        \o "\n\n**Reasoning:** " \o evaluation.reasoning

\* f"(fence)\n{stdout_content}\n(fence)": "~~~" stands for the three backticks
\* of a Markdown code fence.
Fence(stdout_content) == "~~~\n" \o stdout_content \o "\n~~~"

\* The stdout of the first result returned as it is, without the fence.
EarlyStopResponseUnfenced(res) == json_loads_get(res[1].content, "stdout")

\* stdout_content = json.loads(results[0]["content"])["stdout"], fenced.
EarlyStopResponse(res) == Fence(json_loads_get(res[1].content, "stdout"))

\* get_summary's prompt: the previous summary and the messages, formatted
\* into the text of one user message when the coroutine's body starts.
get_summary_input(previous_summary, msgs) ==
    [previous_summary |-> previous_summary, messages |-> msgs]

\* The await of the summary with the final tuple carrying the summary the
\* turn was entered with instead of the awaited one.
AwaitSummaryAndYieldOldSummary(answer) ==
    /\ final_response' = answer
    /\ CASE new_summary_promise.st = "done" ->
              /\ emitted' = Append(emitted, << answer, early_stop_info,
                                   current_summary >>)
              /\ pc' = "final"
              /\ UNCHANGED << error, new_summary_promise >>
         [] new_summary_promise.st = "failed" ->
              /\ pc' = "raised"
              /\ error' = "SummarizerError"
              /\ UNCHANGED << emitted, new_summary_promise >>
         [] OTHER ->
              /\ pc' = "await_summary"
              /\ UNCHANGED << emitted, error, new_summary_promise >>

\* `new_summary = await new_summary_promise` followed by the final yield.
\* A task that is done does not suspend the generator; a coroutine that was
\* never scheduled runs its body inside the await.
AwaitSummaryAndYield(answer) ==
    /\ final_response' = answer
    /\ CASE new_summary_promise.st = "done" ->
              /\ emitted' = Append(emitted, << answer, early_stop_info,
                                   new_summary_promise.outcome[1].summary >>)
              /\ pc' = "final"
              /\ UNCHANGED << error, new_summary_promise >>
         [] new_summary_promise.st = "failed" ->
              /\ pc' = "raised"
              /\ error' = "SummarizerError"
              /\ UNCHANGED << emitted, new_summary_promise >>
         [] new_summary_promise.st = "coroutine" ->
              /\ new_summary_promise' =
                    [new_summary_promise EXCEPT
                        !.st = "waiting",
                        !.input = <<get_summary_input(current_summary, messages)>>]
              /\ pc' = "await_summary"
              /\ UNCHANGED << emitted, error >>
         [] OTHER ->
              /\ pc' = "await_summary"
              /\ UNCHANGED << emitted, error, new_summary_promise >>

\* Lines 110-127: the generator's first segment, up to the first call of
\* the primary model.
Enter ==
    /\ pc = "start"
    /\ messages' = <<[role |-> "system", content |-> k8s_helper_instructions]>>
                   \o history
                   \o <<[role |-> "user", content |-> message]>>
    /\ early_stop_info' = NoEvaluationYet
    /\ processing_info' = "Processing..."
    /\ new_summary_promise' = create_summary_task
    /\ ready' = IF new_summary_promise'.st = "scheduled"
                THEN Append(ready, "summary") ELSE ready
    /\ step' = 1
    /\ modelCalls' = modelCalls + 1
    /\ response' = NoResponse
    /\ pc' = "await_model"
    /\ UNCHANGED << outside, inputs, early_stop_evaluation, results, final_response,
                    emitted, error, toolVars, early_stop_evaluator, gather,
                    tool_steps >>

\* The primary model answers: a list of tool calls, a text, or an answer cut
\* at the token limit (finish_reason "length") whose message holds the text
\* written so far and a tool call.
ModelRespond ==
    /\ pc = "await_model"
    /\ response = NoResponse
    /\ \/ \E tcs \in ToolCallLists(step) :
             response' = [finish_reason |-> "tool_calls", tool_calls |-> tcs,
                          content |-> ""]
       \/ response' = [finish_reason |-> "stop", tool_calls |-> <<>>,
                       content |-> "the pods are fine"]
       \/ response' = [finish_reason |-> "length",
                       tool_calls |-> <<ToolCall(step, 1, "run_kubectl")>>,
                       content |-> "let me look at the pods"]
    /\ ready' = Append(ready, "main")
    /\ UNCHANGED << outside, inputs, pc, messages, step, early_stop_info,
                    processing_info, early_stop_evaluation, results,
                    final_response, emitted, error, new_summary_promise,
                    toolVars, early_stop_evaluator, gather, modelCalls,
                    tool_steps >>

\* Lines 129-150 (tool calls requested: evaluator chosen, tool task created,
\* first tuple yielded) and 181-187 (no tool call: done).
HandleResponse ==
    /\ Runs("main")
    /\ pc = "await_model"
    /\ ready' = IF response.finish_reason = "tool_calls"
                THEN Append(Tail(ready), "tool") ELSE Tail(ready)
    /\ IF response.finish_reason = "tool_calls"
       THEN LET tool_calls == response.tool_calls IN
            /\ early_stop_evaluator' =
                  [NoEvaluator EXCEPT
                     !.kind = IF EvaluationTriggered(step, tool_calls)
                              THEN "should_stop_early" ELSE "default",
                     !.st = "coroutine"]
            /\ tool_task' = [NoTask EXCEPT !.st = "scheduled", !.calls = tool_calls]
            /\ process' = NoProcess
            /\ execs' = <<>>
            /\ gather' = NoGather
            /\ processing_info' = ProcessingInfo(tool_calls)
            /\ emitted' = Append(emitted, << processing_info', early_stop_info,
                                            current_summary >>)
            /\ tool_steps' = Append(tool_steps,
                  [step |-> step, n |-> Len(tool_calls), evaluator_calls |-> 0,
                   joined |-> FALSE, evaluation |-> EarlyStopEvaluation(FALSE, "")])
            /\ pc' = "yield1"
            /\ UNCHANGED << final_response, error, new_summary_promise >>
       ELSE /\ AwaitSummaryAndYield(response.content)
            /\ UNCHANGED << processing_info, toolVars, early_stop_evaluator,
                            gather, tool_steps >>
    /\ UNCHANGED << outside, inputs, messages, step, response, early_stop_info,
                    early_stop_evaluation, results, modelCalls >>

\* Line 151: the consumer asks for the next tuple; gather wraps the
\* evaluation coroutine in a task and the generator waits for the join.
ResumeAfterDispatch ==
    /\ pc = "yield1"
    /\ early_stop_evaluator' = [early_stop_evaluator EXCEPT !.st = "scheduled"]
    /\ gather' = IF tool_task.st = "failed"
                 THEN [st |-> "fired", exc |-> tool_task.exc]
                 ELSE [st |-> "pending", exc |-> ""]
    /\ ready' = ready \o <<"eval">>
                      \o (IF tool_task.st = "failed" THEN <<"main">> ELSE <<>>)
    /\ pc' = "await_gather"
    /\ UNCHANGED << outside, inputs, locals, emitted, error, new_summary_promise,
                    toolVars, modelCalls, tool_steps >>

\* Lines 151-170: the join returned (or raised); status updated and the
\* second tuple yielded.
AfterJoin ==
    /\ Runs("main")
    /\ pc = "await_gather"
    /\ ready' = Tail(ready)
    /\ IF gather.exc # ""
       THEN /\ pc' = "raised"
            /\ error' = gather.exc
            /\ UNCHANGED << results, early_stop_evaluation, early_stop_info,
                            emitted, tool_steps >>
       ELSE /\ results' = tool_task.results
            /\ early_stop_evaluation' = early_stop_evaluator.evaluation
            /\ early_stop_info' =
                  IF early_stop_evaluation'.reasoning # DEFAULT_EARLY_STOPPING_REASONING
                  THEN EarlyStopReport(early_stop_evaluation')
                  ELSE early_stop_info
            /\ emitted' = Append(emitted, << processing_info, early_stop_info',
                                            current_summary >>)
            /\ tool_steps' = [tool_steps EXCEPT
                                ![Len(tool_steps)].joined = TRUE,
                                ![Len(tool_steps)].evaluation = early_stop_evaluation']
            /\ pc' = "yield2"
            /\ UNCHANGED error
    /\ UNCHANGED << outside, inputs, messages, step, response, processing_info,
                    final_response, new_summary_promise, toolVars,
                    early_stop_evaluator, gather, modelCalls >>

\* Lines 172-177: early stop. The answer is the fenced stdout of the first
\* tool result; the summary is awaited and the final tuple yielded.
ResumeEarlyStop ==
    /\ pc = "yield2"
    /\ early_stop_evaluation.should_stop
    /\ AwaitSummaryAndYield(EarlyStopResponse(results))
    /\ UNCHANGED << outside, inputs, messages, step, response, early_stop_info,
                    processing_info, early_stop_evaluation, results, ready,
                    toolVars, early_stop_evaluator, gather, modelCalls,
                    tool_steps >>

\* The await of the summary hoisted above the test of should_stop: the loop
\* waits for the summary in a step that does not end the turn.
ResumeNextStepAwaitingSummary ==
    /\ pc = "yield2"
    /\ ~early_stop_evaluation.should_stop
    /\ AwaitSummaryAndYield("")
    /\ UNCHANGED << outside, inputs, messages, step, response, early_stop_info,
                    processing_info, early_stop_evaluation, results, ready,
                    toolVars, early_stop_evaluator, gather, modelCalls,
                    tool_steps >>

\* The next step taken with the tool-call message appended and the tool
\* results left out.
ResumeNextStepWithoutResults ==
    /\ pc = "yield2"
    /\ ~early_stop_evaluation.should_stop
    /\ step < StepBound
    /\ messages' = Append(messages,
                          [role |-> "assistant", content |-> "",
                           tool_calls |-> response.tool_calls])
    /\ step' = step + 1
    /\ modelCalls' = modelCalls + 1
    /\ response' = NoResponse
    /\ pc' = "await_model"
    /\ UNCHANGED << outside, inputs, early_stop_info, processing_info,
                    early_stop_evaluation, results, final_response, emitted,
                    error, ready, new_summary_promise, toolVars,
                    early_stop_evaluator, gather, tool_steps >>

\* The next step taken with the tool results put before the tool-call
\* message.
ResumeNextStepResultsFirst ==
    /\ pc = "yield2"
    /\ ~early_stop_evaluation.should_stop
    /\ step < StepBound
    /\ messages' = (messages \o results)
                   \o << [role |-> "assistant", content |-> "",
                          tool_calls |-> response.tool_calls] >>
    /\ step' = step + 1
    /\ modelCalls' = modelCalls + 1
    /\ response' = NoResponse
    /\ pc' = "await_model"
    /\ UNCHANGED << outside, inputs, early_stop_info, processing_info,
                    early_stop_evaluation, results, final_response, emitted,
                    error, ready, new_summary_promise, toolVars,
                    early_stop_evaluator, gather, tool_steps >>

\* Lines 178-180 and 122-127: the tool-call message and the tool results are
\* appended and the primary model is called again.
ResumeNextStep ==
    /\ pc = "yield2"
    /\ ~early_stop_evaluation.should_stop
    /\ step < StepBound
    /\ messages' = Append(messages,
                          [role |-> "assistant", content |-> "",
                           tool_calls |-> response.tool_calls]) \o results
    /\ step' = step + 1
    /\ modelCalls' = modelCalls + 1
    /\ response' = NoResponse
    /\ pc' = "await_model"
    /\ UNCHANGED << outside, inputs, early_stop_info, processing_info,
                    early_stop_evaluation, results, final_response, emitted,
                    error, ready, new_summary_promise, toolVars,
                    early_stop_evaluator, gather, tool_steps >>

\* Lines 175-176 and 184-187: the summary task finished while the generator
\* was waiting for it.
AfterSummary ==
    /\ Runs("main")
    /\ pc = "await_summary"
    /\ ready' = Tail(ready)
    /\ AwaitSummaryAndYield(final_response)
    /\ UNCHANGED << outside, inputs, messages, step, response, early_stop_info,
                    processing_info, early_stop_evaluation, results,
                    toolVars, early_stop_evaluator, gather, modelCalls,
                    tool_steps >>

\* The consumer asks for a tuple after the final one: the generator returns.
ResumeAfterFinal ==
    /\ pc = "final"
    /\ pc' = "returned"
    /\ UNCHANGED << outside, inputs, locals, emitted, error, ready, new_summary_promise,
                    toolVars, early_stop_evaluator, gather, modelCalls,
                    tool_steps >>

\* ------------------------------------------------- the handle_tool_call task
\* The tool message correlated by the tool's name instead of the call's id.
ToolMessageByName(result, tool_call) ==
    [role |-> "tool", content |-> model_dump_json(result),
     tool_call_id |-> tool_call.name]

\* Lines 70-76: the tool message appended for the result of `tool_call`.
ToolMessage(result, tool_call) ==
    [role |-> "tool", content |-> model_dump_json(result),
     tool_call_id |-> tool_call.id]

\* Lines 65-69 for the i-th call, up to the first suspension of the
\* implementation: the tool is looked up, the binary resolved (found or not)
\* and the process spawned. Past the last call the task returns.
TaskAtCall(task, i, found) ==
    IF i > Len(task.calls) THEN [task EXCEPT !.st = "done"]
    ELSE LET tool == get_tool_by_name(task.calls[i].name) IN
         IF tool = "ValueError"
         THEN [task EXCEPT !.st = "failed", !.i = i, !.exc = "ValueError"]
         ELSE IF ~found
         THEN [task EXCEPT !.st = "failed", !.i = i, !.exc = "FileNotFoundError"]
         ELSE [task EXCEPT !.st = "communicate", !.i = i]

\* The process spawned for the call the task now waits on.
ProcessAtCall(task) ==
    IF task.st = "communicate"
    THEN [st |-> "running",
          cmd |-> BuildCmd(get_tool_by_name(task.calls[task.i].name),
                           task.calls[task.i].arguments),
          outcome |-> None]
    ELSE NoProcess

\* The record kept of an execution that has started.
ExecStarted(task, proc) ==
    IF task.st = "communicate"
    THEN << [index |-> task.i, cmd |-> proc.cmd, finished |-> FALSE,
             result |-> ExecutionResult(<<>>, 0, "", "", None)] >>
    ELSE <<>>

\* A task that ended tells gather; `other` is gather's other child.
TaskEnded(task, other) ==
    LET g == GatherAfter(gather, IF task.st = "failed" THEN task.exc ELSE "",
                         other.st = "done")
    IN  /\ gather' = (IF task.st \in {"done", "failed"} THEN g ELSE gather)
        /\ ready' = Tail(ready) \o
                    (IF task.st \in {"done", "failed"}
                     THEN WakeOnGather(gather, g) ELSE <<>>)

\* The task's first step: the first call is started.
ToolTaskStart ==
    /\ Runs("tool")
    /\ tool_task.st = "scheduled"
    /\ \E found \in BOOLEAN :
          /\ tool_task' = TaskAtCall(tool_task, 1, found)
          /\ process' = ProcessAtCall(tool_task')
          /\ execs' = execs \o ExecStarted(tool_task', process')
          /\ TaskEnded(tool_task', early_stop_evaluator)
    /\ UNCHANGED << outside, inputs, pc, locals, emitted, error, new_summary_promise,
                    early_stop_evaluator, modelCalls, tool_steps >>

\* The process exits, or is still running when the timeout fires.
ProcessEvent ==
    /\ tool_task.st = "communicate"
    /\ \E o \in ProcessOutcomes :
          process' = [process EXCEPT
                         !.st = IF o.kind = "exit" THEN "exited" ELSE "running",
                         !.outcome = <<o>>]
    /\ tool_task' = [tool_task EXCEPT !.st = "resumable"]
    /\ ready' = Append(ready, "tool")
    /\ UNCHANGED << outside, inputs, pc, locals, emitted, error, new_summary_promise,
                    execs, early_stop_evaluator, gather, modelCalls,
                    tool_steps >>

\* tools.py 105-107, 130-152 and main_no_fm.py 70-76: the process exited. With
\* check set and a non-zero code the call raises; otherwise its result is
\* appended and the task goes on to the next call.
ToolCallReturned ==
    /\ Runs("tool")
    /\ tool_task.st = "resumable"
    /\ process.outcome[1].kind = "exit"
    /\ LET call == tool_task.calls[tool_task.i]
           o == process.outcome[1]
           result == ResultOf(process.cmd, o)
       IN  IF RaisesCalledProcessError(call.arguments, o)
           THEN /\ tool_task' = [tool_task EXCEPT !.st = "failed",
                                                  !.exc = "CalledProcessError"]
                /\ process' = process
                /\ execs' = [execs EXCEPT ![Len(execs)].finished = TRUE]
                /\ TaskEnded(tool_task', early_stop_evaluator)
           ELSE \E found \in BOOLEAN :
                /\ tool_task' = TaskAtCall(
                      [tool_task EXCEPT
                          !.results = Append(@, ToolMessage(result, call))],
                      tool_task.i + 1, found)
                /\ process' = IF tool_task'.st = "communicate"
                              THEN ProcessAtCall(tool_task') ELSE process
                /\ execs' = [execs EXCEPT ![Len(execs)].finished = TRUE,
                                          ![Len(execs)].result = result]
                            \o ExecStarted(tool_task', process')
                /\ TaskEnded(tool_task', early_stop_evaluator)
    /\ UNCHANGED << outside, inputs, pc, locals, emitted, error, new_summary_promise,
                    early_stop_evaluator, modelCalls, tool_steps >>

\* The process exits by itself after the timeout fired and before the
\* task's except clause runs.
ProcessExitLate ==
    /\ tool_task.st = "resumable"
    /\ process.outcome[1].kind = "timeout"
    /\ process.st = "running"
    /\ process' = [process EXCEPT !.st = "exited"]
    /\ UNCHANGED << outside, inputs, pc, locals, emitted, error, ready,
                    new_summary_promise, tool_task, execs,
                    early_stop_evaluator, gather, modelCalls, tool_steps >>

\* tools.py 108-111: the timeout fired. A process that runs is killed and its
\* exit awaited. On one that has exited process.kill() does nothing, or
\* raises ProcessLookupError when the transport is closed already;
\* process.wait() then returns at once and TimeoutExpired is raised.
ToolCallTimedOut ==
    /\ Runs("tool")
    /\ tool_task.st = "resumable"
    /\ process.outcome[1].kind = "timeout"
    /\ IF process.st = "running"
       THEN /\ process' = [process EXCEPT !.st = "killed"]
            /\ tool_task' = [tool_task EXCEPT !.st = "reaping"]
            /\ ready' = Tail(ready)
            /\ UNCHANGED << execs, gather >>
       ELSE /\ \E exc \in {"ProcessLookupError", "TimeoutExpired"} :
                  tool_task' = [tool_task EXCEPT !.st = "failed", !.exc = exc]
            /\ execs' = [execs EXCEPT ![Len(execs)].finished = TRUE]
            /\ TaskEnded(tool_task', early_stop_evaluator)
            /\ UNCHANGED process
    /\ UNCHANGED << outside, inputs, pc, locals, emitted, error,
                    new_summary_promise, early_stop_evaluator, modelCalls,
                    tool_steps >>

\* The killed process is gone: process.wait() completes.
ProcessReaped ==
    /\ tool_task.st = "reaping"
    /\ process' = [process EXCEPT !.st = "exited"]
    /\ tool_task' = [tool_task EXCEPT !.st = "reaped"]
    /\ ready' = Append(ready, "tool")
    /\ UNCHANGED << outside, inputs, pc, locals, emitted, error, new_summary_promise,
                    execs, early_stop_evaluator, gather, modelCalls,
                    tool_steps >>

\* tools.py 111: raise subprocess.TimeoutExpired(cmd, timeout).
ToolCallTimeoutRaised ==
    /\ Runs("tool")
    /\ tool_task.st = "reaped"
    /\ tool_task' = [tool_task EXCEPT !.st = "failed", !.exc = "TimeoutExpired"]
    /\ execs' = [execs EXCEPT ![Len(execs)].finished = TRUE]
    /\ TaskEnded(tool_task', early_stop_evaluator)
    /\ UNCHANGED << outside, inputs, pc, locals, emitted, error, new_summary_promise,
                    process, early_stop_evaluator, modelCalls, tool_steps >>

\* ------------------------------------------------------ the evaluation task
\* default_early_stop_evaluation()
default_early_stop_evaluation ==
    EarlyStopEvaluation(FALSE, DEFAULT_EARLY_STOPPING_REASONING)

\* The first step of the evaluation: the default returns at once;
\* should_stop_early (80-97) builds its prompt and calls the evaluator model.
EvaluatorStart ==
    /\ Runs("eval")
    /\ early_stop_evaluator.st = "scheduled"
    /\ IF early_stop_evaluator.kind = "default"
       THEN /\ early_stop_evaluator' =
                  [early_stop_evaluator EXCEPT
                      !.st = "done", !.evaluation = default_early_stop_evaluation]
            /\ TaskEnded(early_stop_evaluator', tool_task)
            /\ UNCHANGED tool_steps
       ELSE /\ early_stop_evaluator' = [early_stop_evaluator EXCEPT !.st = "waiting"]
            /\ tool_steps' = [tool_steps EXCEPT
                                ![Len(tool_steps)].evaluator_calls = @ + 1]
            /\ ready' = Tail(ready)
            /\ UNCHANGED gather
    /\ UNCHANGED << outside, inputs, pc, locals, emitted, error, new_summary_promise,
                    toolVars, modelCalls >>

\* The evaluator model answers.
EvaluatorRespond ==
    /\ early_stop_evaluator.st = "waiting"
    /\ \E o \in EvaluatorOutcomes :
          early_stop_evaluator' = [early_stop_evaluator EXCEPT
                                      !.st = "resumable", !.outcome = <<o>>]
    /\ ready' = Append(ready, "eval")
    /\ UNCHANGED << outside, inputs, pc, locals, emitted, error, new_summary_promise,
                    toolVars, gather, modelCalls, tool_steps >>

\* Line 99: EarlyStopEvaluation.model_validate_json(content) returns the
\* evaluation or raises ValidationError.
EvaluatorReturn ==
    /\ Runs("eval")
    /\ early_stop_evaluator.st = "resumable"
    /\ LET o == early_stop_evaluator.outcome[1] IN
       early_stop_evaluator' =
          IF o.valid
          THEN [early_stop_evaluator EXCEPT
                   !.st = "done",
                   !.evaluation = EarlyStopEvaluation(o.should_stop, o.reasoning)]
          ELSE [early_stop_evaluator EXCEPT
                   !.st = "failed", !.exc = "ValidationError"]
    /\ TaskEnded(early_stop_evaluator', tool_task)
    /\ UNCHANGED << outside, inputs, pc, locals, emitted, error, new_summary_promise,
                    toolVars, modelCalls, tool_steps >>

\* --------------------------------------------------------- the summary task
\* summary_keeper.py 17-29: the body of get_summary starts; the prompt is
\* formatted from the messages as they are now and the summarizer is run.
SummaryStart ==
    /\ Runs("summary")
    /\ new_summary_promise.st = "scheduled"
    /\ new_summary_promise' =
          [new_summary_promise EXCEPT
              !.st = "waiting",
              !.input = <<get_summary_input(current_summary, messages)>>]
    /\ ready' = Tail(ready)
    /\ UNCHANGED << outside, inputs, pc, locals, emitted, error, toolVars,
                    early_stop_evaluator, gather, modelCalls, tool_steps >>

\* summary_keeper.py 29-30: the summarizer run ends and get_summary returns
\* response.final_output, or the run's exception propagates; a generator
\* waiting for the task is made ready. (The task's last segment reads and
\* writes nothing the other tasks see, so it is taken with the event that
\* resumes it.)
SummaryReturn ==
    /\ new_summary_promise.st = "waiting"
    /\ \E o \in SummarizerOutcomes :
          new_summary_promise' =
             [new_summary_promise EXCEPT
                 !.st = IF o.ok THEN "done" ELSE "failed", !.outcome = <<o>>]
    /\ ready' = ready \o (IF pc = "await_summary" THEN <<"main">> ELSE <<>>)
    /\ UNCHANGED << outside, inputs, pc, locals, emitted, error, toolVars,
                    early_stop_evaluator, gather, modelCalls, tool_steps >>

\* ------------------------------------------------------------ specification
Next ==
    \/ Enter
    \/ ModelRespond
    \/ HandleResponse
    \/ ResumeAfterDispatch
    \/ AfterJoin
    \/ ResumeEarlyStop
    \/ ResumeNextStep
    \/ AfterSummary
    \/ ResumeAfterFinal
    \/ ToolTaskStart
    \/ ProcessEvent
    \/ ToolCallReturned
    \/ ProcessExitLate
    \/ ToolCallTimedOut
    \/ ProcessReaped
    \/ ToolCallTimeoutRaised
    \/ EvaluatorStart
    \/ EvaluatorRespond
    \/ EvaluatorReturn
    \/ SummaryStart
    \/ SummaryReturn

Spec == Init /\ [][Next]_vars

\* The steps the event loop takes by itself: a task that is ready is run.
\* Everything else waits for the environment (a model, a process, the
\* consumer of the tuples).
EventLoopStep ==
    \/ HandleResponse
    \/ AfterJoin
    \/ AfterSummary
    \/ ToolTaskStart
    \/ ToolCallReturned
    \/ ToolCallTimedOut
    \/ ToolCallTimeoutRaised
    \/ EvaluatorStart
    \/ EvaluatorReturn
    \/ SummaryStart

\* The event loop never leaves a ready task unrun; the environment owes
\* nothing (a process may run forever, a consumer may stop asking).
FairSpec == Spec /\ WF_vars(EventLoopStep)

\* ----------------------------------------------- texts, bytes and JSON
\* A text is the sequence of its code points, bytes are numbers 0..255.
\* Nesting depth json.loads explores here before the interpreter's recursion
\* limit (1000 by default) is hit.
MaxDepth == 2

\* bytes.decode('utf-8'), strict: <<text>>, or None for UnicodeDecodeError.
\* One-byte and two-byte sequences are decoded; any other byte from 0x80 is
\* invalid here (a lone continuation byte, 0xFF).
RECURSIVE decode_utf8(_)
decode_utf8(bytes) ==
    IF bytes = <<>> THEN << <<>> >>
    ELSE IF bytes[1] < 128
    THEN LET rest == decode_utf8(Tail(bytes))
         IN  IF rest = None THEN None ELSE << <<bytes[1]>> \o rest[1] >>
    ELSE IF bytes[1] \in 194..223 /\ Len(bytes) >= 2 /\ bytes[2] \in 128..191
    THEN LET rest == decode_utf8(SubSeq(bytes, 3, Len(bytes)))
         IN  IF rest = None THEN None
             ELSE << <<(bytes[1] - 192) * 64 + (bytes[2] - 128)>> \o rest[1] >>
    ELSE None

\* The code points below 256 for which str.isspace() is true.
Whitespace == {9, 10, 11, 12, 13, 28, 29, 30, 31, 32, 133, 160}

\* The whitespace the JSON grammar allows around a value.
JsonWhitespace == {9, 10, 13, 32}

RECURSIVE StripLeft(_, _)
StripLeft(s, ws) ==
    IF s # <<>> /\ s[1] \in ws THEN StripLeft(Tail(s), ws) ELSE s

RECURSIVE StripRight(_, _)
StripRight(s, ws) ==
    IF s # <<>> /\ s[Len(s)] \in ws
    THEN StripRight(SubSeq(s, 1, Len(s) - 1), ws) ELSE s

\* str.lstrip()
lstrip(s) == StripLeft(s, Whitespace)

\* s.startswith(c) for one character c
startswith(s, c) == s # <<>> /\ s[1] = c

\* json.loads on the grammar: value ::= 1 | {} | [] | [ value ], with
\* whitespace around values. The result is the parsed value (1, a record
\* for the object, a tuple for the list), or the exception: JSONDecodeError
\* for any other text, RecursionError when the lists nest deeper than the
\* recursion limit.
RECURSIVE json_scan(_, _)
json_scan(s, depth) ==
    LET t == StripRight(StripLeft(s, JsonWhitespace), JsonWhitespace) IN
    IF depth > MaxDepth THEN [exc |-> "RecursionError", value |-> None]
    ELSE IF t = <<49>> THEN [exc |-> "", value |-> 1]
    ELSE IF t = <<123, 125>> THEN [exc |-> "", value |-> [members |-> <<>>]]
    ELSE IF Len(t) >= 2 /\ t[1] = 91 /\ t[Len(t)] = 93
    THEN LET inner == StripLeft(SubSeq(t, 2, Len(t) - 1), JsonWhitespace) IN
         IF inner = <<>> THEN [exc |-> "", value |-> <<>>]
         ELSE LET e == json_scan(inner, depth + 1)
              IN  IF e.exc # "" THEN e ELSE [exc |-> "", value |-> <<e.value>>]
    ELSE [exc |-> "JSONDecodeError", value |-> None]

json_loads(s) == json_scan(s, 1)

\* tools.py 130-137 and 299-307: the json field of the result, or the
\* exception that leaves the detection (only JSONDecodeError is caught).
json_detection(capture_output, stdout) ==
    IF capture_output /\ stdout # <<>>
    THEN LET s == lstrip(stdout) IN
         IF startswith(s, 123) \/ startswith(s, 91)
         THEN LET r == json_loads(stdout) IN
              IF r.exc = "" THEN [exc |-> "", parsed |-> <<r.value>>]
              ELSE IF r.exc = "JSONDecodeError" THEN [exc |-> "", parsed |-> None]
              ELSE [exc |-> r.exc, parsed |-> None]
         ELSE [exc |-> "", parsed |-> None]
    ELSE [exc |-> "", parsed |-> None]

\* d opening brackets followed by d closing brackets.
RECURSIVE Nested(_)
Nested(d) == IF d = 0 THEN <<>> ELSE <<91>> \o Nested(d - 1) \o <<93>>

\* What a command may print on its standard output: nothing, "ok\n", " {}",
\* "{o", a vertical tab before "[]", a byte that is not UTF-8, "e" with an
\* acute accent in two bytes, and lists nested up to one level past the
\* recursion limit.
StdoutSamples ==
    { <<>>, <<111, 107, 10>>, <<32, 123, 125>>, <<123, 111>>, <<11, 91, 93>>,
      <<255>>, <<195, 169>> }
    \cup { Nested(d) : d \in 1..(MaxDepth + 1) }

\* What it may print on its standard error.
StderrSamples == { <<>>, <<101, 114, 114>>, <<255>> }

\* ------------------------------------------- the executor, called directly
\* run_kubectl_impl and run_helm_impl with every combination of
\* capture_output, check, timeout and (run_helm_impl only) input_data.
DirectCall(tool, capture_output, check, input_data, timeout) ==
    [st |-> "called", tool |-> tool,
     arguments |-> [ToolArguments(IF tool = "run_kubectl_impl"
                                  THEN "run_kubectl" ELSE "run_helm")
                       EXCEPT !.check = check],
     capture_output |-> capture_output, input_data |-> input_data,
     timeout |-> timeout, timed_out |-> FALSE, cmd |-> <<>>,
     process |-> [st |-> "none", stdin |-> FALSE, returncode |-> 0,
                  stdout |-> <<>>, stderr |-> <<>>, signalled |-> FALSE],
     result |-> None, exc |-> NoException]

\* input_data is a parameter of run_helm_impl only.
InputData(tool) ==
    IF tool = "run_helm_impl" THEN {"", "replicas: 2"} ELSE {""}

DirectCalls ==
    UNION { { DirectCall(tool, capture_output, check, input_data, timeout) :
                capture_output \in BOOLEAN, check \in BOOLEAN,
                input_data \in InputData(tool), timeout \in {None, <<60>>} } :
            tool \in {"run_kubectl_impl", "run_helm_impl"} }

\* The call ends by raising.
Raise(c, type, args) ==
    [c EXCEPT !.st = "failed", !.exc = [type |-> type, args |-> args]]

\* tools.py 94-99, 114-119, 250-257, 274-281: the process as spawned; stdin
\* is a pipe when the call has input data.
Spawned(c) ==
    [c.process EXCEPT !.st = "running", !.stdin = (c.input_data # "")]

\* The output decoded whether or not it was captured.
output_text_always_decoded(capture_output, bytes) ==
    IF bytes # <<>> THEN decode_utf8(bytes) ELSE << <<>> >>

\* tools.py 105-106, 123-124, 265-266, 292-293: stdout or stderr as text.
\* With capture_output the bytes read from the pipe are decoded, or "" for
\* no bytes; without it the text is "". None: the decoding raised.
output_text(capture_output, bytes) ==
    IF capture_output
    THEN (IF bytes # <<>> THEN decode_utf8(bytes) ELSE << <<>> >>)
    ELSE << <<>> >>

\* tools.py 105-107 and 130-152 (265-267, 299-320): the call resumes with
\* the process exited: decoding, JSON detection, the test of check and the
\* result, in the order of the code.
AfterExit(c) ==
    LET stdout == output_text(c.capture_output, c.process.stdout)
        stderr == output_text(c.capture_output, c.process.stderr)
        returncode == c.process.returncode
    IN  IF stdout = None \/ stderr = None
        THEN Raise(c, "UnicodeDecodeError", <<>>)
        ELSE LET detection == json_detection(c.capture_output, stdout[1]) IN
             IF detection.exc # ""
             THEN Raise(c, detection.exc, <<>>)
             ELSE IF c.arguments.check /\ returncode # 0
             THEN Raise(c, "CalledProcessError",
                        <<returncode, c.cmd, stdout[1], stderr[1]>>)
             ELSE [c EXCEPT
                     !.st = "returned",
                     !.result = <<ExecutionResult(c.cmd, returncode, stdout[1],
                                                  stderr[1], detection.parsed)>>]

\* tools.py 73-99 (225-257): the binary is resolved, the command built and
\* the process spawned; the call waits in wait_for.
ExecutorEnter ==
    /\ executor_call.st = "called"
    /\ \E found \in BOOLEAN :
          executor_call' =
             IF ~found
             THEN Raise(executor_call, "FileNotFoundError", <<>>)
             ELSE [executor_call EXCEPT
                      !.st = "wait_for",
                      !.cmd = BuildCmd(executor_call.tool, executor_call.arguments),
                      !.process = Spawned(executor_call)]
    /\ UNCHANGED << turn, front, grafana_call >>

\* The process exits by itself, having printed what it printed.
ExecutorProcessExit ==
    /\ executor_call.st = "wait_for"
    /\ executor_call.process.st = "running"
    /\ \E returncode \in {0, 1}, out \in StdoutSamples, err \in StderrSamples :
          executor_call' =
             [executor_call EXCEPT
                 !.st = "resumable",
                 !.process = [@ EXCEPT !.st = "exited", !.returncode = returncode,
                                       !.stdout = out, !.stderr = err]]
    /\ UNCHANGED << turn, front, grafana_call >>

\* The timeout fires with the process still running: wait_for cancels the
\* wait and will raise TimeoutError in the call.
ExecutorTimeout ==
    /\ executor_call.st = "wait_for"
    /\ executor_call.timeout # None
    /\ executor_call.process.st = "running"
    /\ executor_call' = [executor_call EXCEPT !.st = "timeout",
                                              !.timed_out = TRUE]
    /\ UNCHANGED << turn, front, grafana_call >>

\* The process exits by itself after the timeout fired and before the
\* call's except clause runs.
ExecutorProcessExitLate ==
    /\ executor_call.st = "timeout"
    /\ executor_call.process.st = "running"
    /\ executor_call' = [executor_call EXCEPT !.process.st = "exited"]
    /\ UNCHANGED << turn, front, grafana_call >>

\* tools.py 108-110 (125-127, 268-270, 294-296): `except asyncio.TimeoutError`.
\* process.kill() signals a process that runs. On one that has exited it
\* does nothing, or raises ProcessLookupError when the transport is closed
\* already; process.wait() then returns at once.
ExecutorOnTimeout ==
    /\ executor_call.st = "timeout"
    /\ IF executor_call.process.st = "running"
       THEN executor_call' = [executor_call EXCEPT
                                 !.st = "reaping",
                                 !.process.st = "killed",
                                 !.process.signalled = TRUE]
       ELSE \/ executor_call' = Raise(executor_call, "ProcessLookupError", <<>>)
            \/ executor_call' = Raise(executor_call, "TimeoutExpired",
                                      <<executor_call.cmd, executor_call.timeout[1]>>)
    /\ UNCHANGED << turn, front, grafana_call >>

\* The killed process is gone and process.wait() completes.
ExecutorProcessReaped ==
    /\ executor_call.st = "reaping"
    /\ executor_call' = [executor_call EXCEPT !.st = "reaped",
                                              !.process.st = "exited",
                                              !.process.returncode = -9]
    /\ UNCHANGED << turn, front, grafana_call >>

\* tools.py 111 (128, 271, 297): raise subprocess.TimeoutExpired(cmd, timeout).
ExecutorTimeoutRaised ==
    /\ executor_call.st = "reaped"
    /\ executor_call' = Raise(executor_call, "TimeoutExpired",
                              <<executor_call.cmd, executor_call.timeout[1]>>)
    /\ UNCHANGED << turn, front, grafana_call >>

\* The call resumes after the exit of the process and returns or raises.
ExecutorResume ==
    /\ executor_call.st = "resumable"
    /\ executor_call' = AfterExit(executor_call)
    /\ UNCHANGED << turn, front, grafana_call >>

ExecutorInit ==
    TurnInit /\ executor_call \in DirectCalls /\ NoFrontEvent /\ NoGrafanaCall

ExecutorNext ==
    \/ ExecutorEnter
    \/ ExecutorProcessExit
    \/ ExecutorTimeout
    \/ ExecutorProcessExitLate
    \/ ExecutorOnTimeout
    \/ ExecutorProcessReaped
    \/ ExecutorTimeoutRaised
    \/ ExecutorResume

\* One call of run_kubectl_impl or run_helm_impl, made by itself.
ExecutorSpec == ExecutorInit /\ [][ExecutorNext]_vars

\* What a caller can pass for an optional parameter: nothing (None), the
\* empty text, or a text.
OptionalValues(text) == { None, <<"">>, <<text>> }

\* The keyword arguments of a direct call: every combination of the optional
\* parameters the implementation `tool` turns into flags.
CmdArguments(tool) ==
    IF tool = "run_kubectl_impl"
    THEN { [ToolArguments("run_kubectl") EXCEPT
               !.namespace = n, !.context = c, !.kubeconfig = k] :
             n \in OptionalValues("kube-system"),
             c \in OptionalValues("staging"),
             k \in OptionalValues("/etc/kube.conf") }
    ELSE { [ToolArguments("run_helm") EXCEPT
               !.namespace = n, !.context = c, !.kubeconfig = k,
               !.repo_config = r, !.registry_config = g] :
             n \in OptionalValues("kube-system"),
             c \in OptionalValues("staging"),
             k \in OptionalValues("/etc/kube.conf"),
             r \in OptionalValues("repositories.yaml"),
             g \in OptionalValues("registry.json") }

\* Direct calls that differ in their optional parameters only.
CmdCalls ==
    UNION { { [DirectCall(tool, TRUE, FALSE, "", <<60>>) EXCEPT !.arguments = a] :
                a \in CmdArguments(tool) } :
            tool \in {"run_kubectl_impl", "run_helm_impl"} }

CmdInit ==
    TurnInit /\ executor_call \in CmdCalls /\ NoFrontEvent /\ NoGrafanaCall

\* One call of run_kubectl_impl or run_helm_impl over the optional
\* parameters.
CmdSpec == CmdInit /\ [][ExecutorNext]_vars

\* ------------------------------------------------------------ the front end
\* Turns submitted to the front end.
MaxTurns == 2

\* Lines 240-244 and 271-275: the text of the summary panel.
summary_text(summary) ==
    IF summary # "" THEN "**Current Summary**\n\n" \o summary
    ELSE "**Current Summary**\n\nNo summary yet."

\* The summary the summarizer returns in the n-th turn.
SummaryOf(n) == "summary of turn " \o ToString(n)

\* The status texts a tuple can carry.
StatusTexts ==
    { NoEvaluationYet, EarlyStopReport(EarlyStopEvaluation(FALSE, "enough")) }

\* Lines 150, 170, 176 and 187: the tuples the generator of the turn `r` can
\* yield next: an intermediate one (two per step with tool calls) carrying
\* the processing text and the summary the generator was called with, or the
\* final one carrying the answer and the new summary.
NextTuples(r) ==
    { [final |-> FALSE, response |-> <<"Calling tools...">>,
       early_stop_info |-> i, new_summary |-> r.current_summary] :
        i \in IF r.received < 2 * StepBound THEN StatusTexts ELSE {} }
    \cup { [final |-> TRUE, response |-> <<"the pods are fine">>,
            early_stop_info |-> i, new_summary |-> SummaryOf(r.turn)] :
             i \in StatusTexts }

\* Lines 216-237: a message is submitted and respond runs up to its first
\* wait. An empty message resets the two panels and ends respond; otherwise
\* the generator is called with the history shown and the stored summary as
\* they are now.
RespondStart ==
    /\ front.respond.st = "idle"
    /\ front.turns < MaxTurns
    /\ \E m \in {"", message} :
          front' =
             IF m = ""
             THEN [front EXCEPT
                     !.turns = @ + 1,
                     !.early_stop_status = NoEvaluationYet,
                     !.summary_display = summary_text("")]
             ELSE [front EXCEPT
                     !.turns = @ + 1,
                     !.respond = [st |-> "running", history |-> front.chatbot,
                                  current_summary |-> front.current_summary,
                                  turn |-> front.turns + 1, received |-> 0,
                                  in_flight_at_clear |-> FALSE]]
    /\ UNCHANGED << turn, executor_call, grafana_call >>

\* Lines 233-254: one iteration of respond's loop. The globals take the
\* tuple's summary and status, and the chat and the panels are updated.
RespondTuple ==
    /\ front.respond.st = "running"
    /\ \E t \in NextTuples(front.respond) :
          LET r == front.respond
              shown == r.history \o <<[role |-> "user", content |-> message]>>
          IN  front' =
                [front EXCEPT
                   !.current_summary = t.new_summary,
                   !.current_early_stop_info = t.early_stop_info,
                   !.chatbot =
                       IF t.response # None
                       THEN shown \o <<[role |-> "assistant",
                                        content |-> t.response[1]]>>
                       ELSE shown,
                   !.early_stop_status = t.early_stop_info,
                   !.summary_display = summary_text(t.new_summary),
                   !.changed = TRUE,
                   !.respond = IF t.final THEN [st |-> "idle"]
                               ELSE [r EXCEPT !.received = @ + 1],
                   !.cleared = IF t.final /\ ~r.in_flight_at_clear
                               THEN FALSE ELSE @]
    /\ UNCHANGED << turn, executor_call, grafana_call >>

\* The generator raises: respond ends without another tuple.
RespondRaised ==
    /\ front.respond.st = "running"
    /\ front' = [front EXCEPT !.respond = [st |-> "idle"]]
    /\ UNCHANGED << turn, executor_call, grafana_call >>

\* Lines 260-269: the clear button empties the chat and handle_chatbot_clear
\* runs with the empty history: the globals and the panels are reset.
ChatbotCleared ==
    /\ front.chatbot # <<>>
    /\ front' =
          [front EXCEPT
             !.chatbot = <<>>,
             !.current_summary = "",
             !.current_early_stop_info = NoEvaluationYet,
             !.early_stop_status = NoEvaluationYet,
             !.summary_display = summary_text(""),
             !.changed = FALSE,
             !.cleared = TRUE,
             !.respond = IF @.st = "running"
                         THEN [@ EXCEPT !.in_flight_at_clear = TRUE] ELSE @]
    /\ UNCHANGED << turn, executor_call, grafana_call >>

\* Lines 270-276: handle_chatbot_clear runs for a chat changed by respond:
\* the history is not empty and the panels show the tracked values.
ChatbotChanged ==
    /\ front.changed
    /\ front.chatbot # <<>>
    /\ front' =
          [front EXCEPT
             !.changed = FALSE,
             !.early_stop_status = front.current_early_stop_info,
             !.summary_display = summary_text(front.current_summary)]
    /\ UNCHANGED << turn, executor_call, grafana_call >>

FrontInit == TurnInit /\ executor_call = NoCall /\ NoGrafanaCall /\ front = FrontStart

FrontNext ==
    \/ RespondStart
    \/ RespondTuple
    \/ RespondRaised
    \/ ChatbotCleared
    \/ ChatbotChanged

\* The front end by itself: turns submitted one after the other, the chat
\* cleared at any moment.
FrontSpec == FrontInit /\ [][FrontNext]_vars

\* ------------------------------------------------- the Grafana API request
\* str.upper() of the method names used here.
upper(method) ==
    CASE method = "get"  -> "GET"
      [] method = "post" -> "POST"
      [] OTHER           -> method

\* A call of grafana_api_request_impl, with the module's globals grafana_url
\* and grafana_session_cookie as read from the environment (<<>> when the
\* variable is not set). A URL and an endpoint are sequences of pieces, "/"
\* being a piece of its own.
GrafanaCall(url, cookie, endpoint, method, params, json_data) ==
    [st |-> "called", grafana_url |-> url, grafana_session_cookie |-> cookie,
     endpoint |-> endpoint, method |-> method, params |-> params,
     json_data |-> json_data, request_headers |-> None, url |-> <<>>,
     cmd |-> <<>>, outcome |-> None, result |-> None, exc |-> NoException]

GrafanaCalls ==
    { GrafanaCall(url, cookie, endpoint, method, params, json_data) :
        url \in { None, << <<"https://grafana.example">> >>,
                  << <<"https://grafana.example", "/">> >> },
        cookie \in { None, <<"grafana_session=abc">> },
        endpoint \in { <<"/", "api/org">>, <<"api/org">> },
        method \in { "get", "POST" },
        params \in { None, <<"query=up">> },
        json_data \in { None, <<"{name: main}">> } }

\* HTTP statuses of a response: on both sides of 400.
StatusCodes == {200, 399, 400, 500}

\* Response bodies: empty, "ok", "{}", and lists nested one level past the
\* recursion limit.
BodySamples == { <<>>, <<111, 107>>, <<123, 125>>, Nested(MaxDepth + 1) }

\* How the request inside the try block can end: a response, or an
\* exception of one of the three kinds the function catches.
RequestOutcomes ==
    { [kind |-> "response", status |-> s, body |-> b, json_content_type |-> ct] :
        s \in StatusCodes, b \in BodySamples, ct \in BOOLEAN }
    \cup { [kind |-> k, status |-> 0, body |-> <<>>, json_content_type |-> FALSE] :
             k \in {"ClientError", "TimeoutError", "Exception"} }

\* tools.py 407-418: parsed_json. response.json() raises ContentTypeError
\* for another content type and whatever json.loads raises; the two caught
\* exceptions lead to the second attempt on a body that looks like JSON,
\* where only JSONDecodeError is caught. exc is the exception that leaves
\* the block.
parsed_json(o) ==
    IF o.body = <<>> THEN [exc |-> "", parsed |-> None]
    ELSE LET first == IF o.json_content_type THEN json_loads(o.body)
                      ELSE [exc |-> "ContentTypeError", value |-> None]
             stripped == StripRight(StripLeft(o.body, Whitespace), Whitespace)
         IN  IF first.exc = "" THEN [exc |-> "", parsed |-> <<first.value>>]
             ELSE IF first.exc \notin {"JSONDecodeError", "ContentTypeError"}
             THEN [exc |-> first.exc, parsed |-> None]
             ELSE IF startswith(stripped, 123) \/ startswith(stripped, 91)
             THEN LET second == json_loads(o.body) IN
                  IF second.exc = "" THEN [exc |-> "", parsed |-> <<second.value>>]
                  ELSE IF second.exc = "JSONDecodeError"
                  THEN [exc |-> "", parsed |-> None]
                  ELSE [exc |-> second.exc, parsed |-> None]
             ELSE [exc |-> "", parsed |-> None]

\* The three except clauses (443-466): returncode 1, empty stdout, no json.
GrafanaFailure(c, text) ==
    [c EXCEPT !.st = "returned",
              !.result = <<ExecutionResult(c.cmd, 1, <<>>, <<text>>, None)>>]

\* tools.py 393-466: the request ended with the outcome o.
AfterRequest(c, o) ==
    IF o.kind = "ClientError" THEN GrafanaFailure(c, "HTTP Client Error")
    ELSE IF o.kind = "TimeoutError" THEN GrafanaFailure(c, "Request timeout")
    ELSE IF o.kind = "Exception" THEN GrafanaFailure(c, "Unexpected error")
    ELSE LET p == parsed_json(o)
             is_error == o.status >= 400
         IN  IF p.exc # "" THEN GrafanaFailure(c, "Unexpected error")
             ELSE [c EXCEPT
                     !.st = "returned",
                     !.result =
                        <<ExecutionResult(c.cmd,
                                          IF ~is_error THEN 0 ELSE o.status,
                                          o.body,
                                          IF is_error THEN <<"HTTP", o.status>>
                                          ELSE <<>>,
                                          p.parsed)>>]

\* tools.py 369-391, before the try block: the headers with the cookie, the
\* URL from the global grafana_url (None has no rstrip: AttributeError) and
\* the command representation.
GrafanaEnter ==
    /\ grafana_call.st = "called"
    /\ LET c == grafana_call
           u == StripRight(c.grafana_url[1], {"/"}) \o <<"/">>
                   \o StripLeft(c.endpoint, {"/"})
       IN  grafana_call' =
             IF c.grafana_url = None
             THEN [c EXCEPT !.st = "failed",
                            !.exc = [type |-> "AttributeError", args |-> <<>>]]
             ELSE [c EXCEPT
                     !.st = "requesting",
                     !.request_headers =
                        <<[Cookie |-> c.grafana_session_cookie,
                           ContentType |-> (c.json_data # None
                                            /\ upper(c.method) \in
                                                 {"POST", "PUT", "PATCH"})]>>,
                     !.url = u,
                     !.cmd = << <<upper(c.method)>>, u,
                                <<"auth=", "session_cookie">> >>
                             \o (IF c.params # None
                                 THEN << <<"params=", c.params[1]>> >> ELSE <<>>)
                             \o (IF c.json_data # None
                                 THEN << <<"json_data=", c.json_data[1]>> >>
                                 ELSE <<>>)]
    /\ UNCHANGED << turn, executor_call, front >>

\* tools.py 393-466: the request ends and the function returns.
GrafanaRequestEnds ==
    /\ grafana_call.st = "requesting"
    /\ \E o \in RequestOutcomes :
          grafana_call' = [AfterRequest(grafana_call, o) EXCEPT !.outcome = <<o>>]
    /\ UNCHANGED << turn, executor_call, front >>

GrafanaInit ==
    TurnInit /\ executor_call = NoCall /\ NoFrontEvent /\ grafana_call \in GrafanaCalls

GrafanaNext == GrafanaEnter \/ GrafanaRequestEnds

\* One call of grafana_api_request_impl.
GrafanaSpec == GrafanaInit /\ [][GrafanaNext]_vars

\* ------------------------------------------------------------------ claims
\* The messages the generator starts from: system instructions, prior
\* history, the new user message.
EntryMessages ==
    <<[role |-> "system", content |-> k8s_helper_instructions]>>
        \o history \o <<[role |-> "user", content |-> message]>>

ExecutorFailures == {"FileNotFoundError", "TimeoutExpired", "CalledProcessError"}

\* C1: the evaluator model is called in a step if and only if the step is
\* the first of the turn and the primary model requested exactly one tool
\* call in it; in every other step no evaluator call is made and the
\* evaluation the join returns is the default one (should_stop false).
C1_EvaluatorCalledIffFirstStepSingleCall ==
    \A k \in DOMAIN tool_steps :
        LET t == tool_steps[k]
            first_and_single == t.step = 1 /\ t.n = 1
        IN  /\ t.evaluator_calls <= 1
            /\ (t.evaluator_calls = 1 => first_and_single)
            /\ (t.joined => (t.evaluator_calls = 1 <=> first_and_single))
            /\ (t.joined /\ ~first_and_single =>
                    /\ t.evaluation.should_stop = FALSE
                    /\ t.evaluation.reasoning = DEFAULT_EARLY_STOPPING_REASONING)

\* A turn whose first step evaluated its single call with the evaluator model
\* and whose second step, also a single call, was joined without one.
C1_Witness ==
    /\ Len(tool_steps) = 2
    /\ tool_steps[1].joined /\ tool_steps[1].n = 1
    /\ tool_steps[1].evaluator_calls = 1
    /\ tool_steps[2].joined /\ tool_steps[2].n = 1
    /\ tool_steps[2].evaluator_calls = 0

\* C2: once the evaluation of a step says should_stop, the primary model is
\* not called again (it was called once), and the final tuple, the third and
\* last one emitted, carries the stdout of the first execution between two
\* code fences.
C2_EarlyStopReturnsFencedStdout ==
    early_stop_evaluation.should_stop =>
        /\ modelCalls = 1
        /\ pc \in {"yield2", "await_summary", "final", "returned", "raised"}
        /\ Len(emitted) <= 3
        /\ pc \in {"final", "returned"} =>
              /\ Len(emitted) = 3
              /\ emitted[3][1] = "~~~\n" \o execs[1].result.stdout \o "\n~~~"
              /\ emitted[3][3] = "new summary"

\* An early stop has delivered its final tuple for a command that printed
\* something.
C2_Witness ==
    /\ early_stop_evaluation.should_stop
    /\ pc = "final"
    /\ execs[1].result.stdout = "pod-a\npod-b\n"

\* C3: a tool execution that fails with FileNotFoundError, TimeoutExpired or
\* CalledProcessError does not abort the turn (the failure becomes the
\* call's tool message and the primary model is called again).
C3_ExecutorFailureDoesNotAbortTurn ==
    ~(pc = "raised" /\ error \in ExecutorFailures)

\* C4: an evaluator response that does not validate as an EarlyStopEvaluation
\* does not abort the turn (the default evaluation is used instead).
C4_MalformedEvaluationDoesNotAbortTurn ==
    ~(pc = "raised" /\ error = "ValidationError")

\* C5: a maximum step count ends the turn with LoopExceeded: for a maximum
\* below the number of steps explored here, a turn in which the primary
\* model was called that many times has ended with that error.
C5_LoopExceededEndsTurn ==
    modelCalls >= StepBound => (pc = "raised" /\ error = "LoopExceeded")

\* C6: when the tool task of a step has returned, it holds exactly one tool
\* message per requested call, the i-th being the serialized ExecutionResult
\* of the execution of the i-th call (whose argv carries that call's
\* arguments) under that call's id.
C6_OneToolMessagePerCallInOrder ==
    tool_task.st = "done" =>
        /\ Len(tool_task.results) = Len(tool_task.calls)
        /\ Len(execs) = Len(tool_task.calls)
        /\ \A i \in 1..Len(tool_task.calls) :
              LET call == tool_task.calls[i]
                  args == call.arguments.args
              IN  /\ execs[i].index = i
                  /\ execs[i].finished
                  /\ SubSeq(execs[i].cmd, 2, 1 + Len(args)) = args
                  /\ tool_task.results[i].role = "tool"
                  /\ tool_task.results[i].tool_call_id = call.id
                  /\ tool_task.results[i].content = model_dump_json(execs[i].result)

\* A tool task returned for two calls whose executions ended differently.
C6_Witness ==
    /\ tool_task.st = "done"
    /\ Len(tool_task.calls) = 2
    /\ execs[1].result.returncode # execs[2].result.returncode

\* C7: the prompt the summary task sends to the summarizer holds exactly the
\* messages present at loop entry: no assistant tool-call message and no tool
\* result, whatever the loop has appended since.
C7_SummaryReadsEntrySnapshot ==
    new_summary_promise.input # None =>
        LET sent == new_summary_promise.input[1].messages IN
        /\ sent = EntryMessages
        /\ \A j \in 1..Len(sent) :
              sent[j].role # "tool" /\ "tool_calls" \notin DOMAIN sent[j]

\* The summarizer is still working on its prompt while the loop has appended
\* a tool-call message and its results to the conversation.
C7_Witness ==
    /\ new_summary_promise.st = "waiting"
    /\ new_summary_promise.input # None
    /\ Len(messages) > Len(EntryMessages)

\* C8: the generator waits for the summary task only where the turn ends:
\* after an evaluation that says should_stop, or after a response of the
\* primary model that the loop does not take as a request for tool calls.
C8_SummaryAwaitedOnlyAtExit ==
    pc = "await_summary" =>
        \/ early_stop_evaluation.should_stop
        \/ response.finish_reason # "tool_calls"

\* A second step was dispatched, joined and reported with the summary task
\* still unfinished.
C8_Witness ==
    /\ pc = "yield2"
    /\ step = 2
    /\ Len(emitted) = 4
    /\ new_summary_promise.st = "waiting"

\* C9: tool executions of one step run in parallel: once the execution of
\* the first of several calls is under way, the second call is taken up (its
\* execution starts, or it fails to start), whether or not the first ever
\* finishes and however it ends.
C9_LaterCallStartsWhileEarlierRuns ==
    (Len(tool_task.calls) >= 2 /\ tool_task.st = "communicate" /\ tool_task.i = 1)
        ~> (Len(execs) >= 2 \/ tool_task.i >= 2)

\* C10: in a step that triggers the evaluation, tool execution and the
\* evaluator call are launched together: while the command of the tool call
\* is running, the evaluation has been started too; it is not still waiting
\* for the consumer to resume the generator.
C10_EvaluationLaunchedWithToolTask ==
    (early_stop_evaluator.kind = "should_stop_early" /\ process.st = "running")
        => early_stop_evaluator.st # "coroutine"

\* ---------------------------------------------------------- the front end
\* The first element of a yielded tuple as respond receives it (an Optional:
\* <<v>> is the value v). The yields at lines 150 and 170 pass
\* processing_info there, a str; those at 176 and 187 pass the answer.
TupleResponse(t) == <<t[1]>>

\* respond, line 230: the user's message is added to the history at once.
new_history == history \o <<[role |-> "user", content |-> message]>>

\* respond, lines 246-254: the chat history shown for a tuple. With a
\* response that is not None the response is added as an assistant message.
respond_history(resp) ==
    IF resp # None
    THEN new_history \o <<[role |-> "assistant", content |-> resp[1]]>>
    ELSE new_history

\* C11: every tuple emitted before the final one carries no answer (None), so
\* that respond adds no assistant message to the history for it; only the
\* final tuple carries one.
C11_OnlyFinalTupleCarriesAnswer ==
    \A k \in 1..Len(emitted) :
        (k < Len(emitted) \/ pc \notin {"final", "returned"}) =>
            /\ TupleResponse(emitted[k]) = None
            /\ respond_history(TupleResponse(emitted[k])) = new_history

\* The tools offered to the models (main_no_fm.py, `tools`), by name.
tools == {"run_kubectl", "run_helm"}

\* C12: a tool call whose name is not a registered tool is never executed and
\* never passed over: the tool task fails on it with ValueError, it never
\* returns; the only way on for the generator is to raise that error at the
\* join; the primary model is not called again and neither the tool-call
\* message nor any tool message of the step enters the conversation.
C12_UnknownToolAbortsTurn ==
    LET calls == tool_task.calls
        unknown == { i \in 1..Len(calls) : calls[i].name \notin tools }
        ids == { calls[i].id : i \in 1..Len(calls) }
    IN  /\ tool_task.st = "done" => unknown = {}
        /\ \A k \in 1..Len(execs) : execs[k].index \notin unknown
        /\ tool_task.i \in unknown =>
              /\ tool_task.st = "failed"
              /\ tool_task.exc = "ValueError"
              /\ pc \in {"yield1", "await_gather", "raised"}
              /\ pc = "raised" => error = "ValueError"
              /\ modelCalls = step
              /\ response.tool_calls = calls
              /\ \A j \in 1..Len(messages) :
                    /\ "tool_call_id" \in DOMAIN messages[j] =>
                          messages[j].tool_call_id \notin ids
                    /\ "tool_calls" \in DOMAIN messages[j] =>
                          messages[j].tool_calls # calls

\* The turn was aborted by the unknown name of a second call, after the
\* first call of the step had been executed.
C12_Witness ==
    /\ pc = "raised"
    /\ error = "ValueError"
    /\ Len(tool_task.calls) = 2
    /\ tool_task.calls[2].name \notin tools
    /\ Len(tool_task.results) = 1

\* C13: a call whose command exceeded the timeout fails with
\* TimeoutExpired(cmd, timeout), whatever check is, and only once the process
\* has exited; no call returns or fails with its process still running.
C13_TimeoutKillsReapsAndRaises ==
    executor_call.st \in {"returned", "failed"} =>
        /\ executor_call.process.st \in {"none", "exited"}
        /\ executor_call.timed_out =>
              /\ executor_call.st = "failed"
              /\ executor_call.exc =
                    [type |-> "TimeoutExpired",
                     args |-> <<executor_call.cmd, executor_call.timeout[1]>>]

\* A call that ended after its process exited by itself, no timeout having
\* fired.
EndedAfterExit ==
    /\ executor_call.st \in {"returned", "failed"}
    /\ executor_call.process.st = "exited"
    /\ ~executor_call.timed_out

\* C14: for a command that exits without timing out, the call fails with
\* CalledProcessError(returncode, cmd, ...) when check is set and the exit
\* code is not zero, and in every other case returns an ExecutionResult
\* whose returncode is the exit code of the process.
C14_CheckDecidesBetweenRaiseAndResult ==
    EndedAfterExit =>
        IF executor_call.arguments.check /\ executor_call.process.returncode # 0
        THEN /\ executor_call.st = "failed"
             /\ executor_call.exc.type = "CalledProcessError"
             /\ executor_call.exc.args[1] = executor_call.process.returncode
             /\ executor_call.exc.args[2] = executor_call.cmd
        ELSE /\ executor_call.st = "returned"
             /\ executor_call.result[1].returncode =
                   executor_call.process.returncode
             /\ executor_call.result[1].cmd = executor_call.cmd

\* C15: without capture_output every ExecutionResult returned has empty
\* stdout and stderr and no json, whatever the process printed, however it
\* exited and with or without input data.
C15_NoCaptureMeansEmptyOutput ==
    (executor_call.st = "returned" /\ ~executor_call.capture_output) =>
        /\ executor_call.result[1].stdout = <<>>
        /\ executor_call.result[1].stderr = <<>>
        /\ executor_call.result[1].json = None

\* run_helm_impl returned without capture for a process that was given input
\* data, printed on both streams and exited with code 1.
C15_Witness ==
    /\ executor_call.st = "returned"
    /\ ~executor_call.capture_output
    /\ executor_call.tool = "run_helm_impl"
    /\ executor_call.input_data # ""
    /\ executor_call.process.returncode = 1
    /\ executor_call.process.stdout = <<32, 123, 125>>
    /\ executor_call.process.stderr # <<>>

\* C16: JSON detection never makes the call fail, and the json field of a
\* result is absent when stdout is empty, when its first character after
\* leading whitespace is neither '{' nor '[', and when json.loads does not
\* accept it.
C16_JsonDetectionNeverFails ==
    /\ executor_call.st = "failed" =>
          executor_call.exc.type \notin {"JSONDecodeError", "RecursionError"}
    /\ executor_call.st = "returned" =>
          LET stdout == executor_call.result[1].stdout
              s == lstrip(stdout)
          IN  (\/ stdout = <<>>
               \/ ~(startswith(s, 123) \/ startswith(s, 91))
               \/ json_loads(stdout).exc # "")
                  => executor_call.result[1].json = None

\* C17: with capture_output, output that is not valid UTF-8 does not make
\* the call fail: no UnicodeDecodeError, and unless check turns a non-zero
\* exit code into CalledProcessError the call returns a result.
C17_UndecodableOutputDoesNotFailCall ==
    (/\ EndedAfterExit
     /\ executor_call.capture_output
     /\ \/ decode_utf8(executor_call.process.stdout) = None
        \/ decode_utf8(executor_call.process.stderr) = None) =>
        /\ executor_call.exc.type # "UnicodeDecodeError"
        /\ ~(executor_call.arguments.check /\ executor_call.process.returncode # 0)
              => executor_call.st = "returned"

\* C18: an execution that returned a result with a non-zero returncode does
\* not fail the turn, and when the step does not stop early the primary
\* model is called again with that result in the conversation, as the tool
\* message of its call.
C18_NonZeroResultGoesToModel ==
    LET nonzero == { k \in 1..Len(execs) : execs[k].result.returncode # 0 } IN
    /\ (pc = "await_model" /\ step >= 2) =>
          /\ modelCalls = step
          /\ \A k \in nonzero :
                \E j \in 1..Len(messages) :
                    /\ messages[j].role = "tool"
                    /\ messages[j].tool_call_id =
                          tool_task.calls[execs[k].index].id
                    /\ messages[j].content = model_dump_json(execs[k].result)
    /\ (/\ pc = "raised"
        /\ nonzero # {}
        /\ tool_task.st = "done"
        /\ early_stop_evaluator.st = "done") => error = "SummarizerError"

\* The primary model is being called a second time after a first step whose
\* command exited with code 1 and stderr "connection refused".
C18_Witness ==
    /\ pc = "await_model"
    /\ step = 2
    /\ Len(execs) = 1
    /\ execs[1].result.returncode = 1
    /\ execs[1].result.stderr = "connection refused"
    /\ messages[Len(messages)].role = "tool"

\* The generator has reached `await new_summary_promise` (line 175 or 184).
SummaryAwaited ==
    \/ pc \in {"await_summary", "final", "returned"}
    \/ pc = "raised" /\ error = "SummarizerError"

\* C19: however the turn ends, by the generator returning or by an error
\* leaving it, the loop has awaited the summary task.
C19_SummaryAwaitedOnEveryExit ==
    pc \in {"returned", "raised"} => SummaryAwaited

\* C20: a response without a tool-call request ends the loop as done: the
\* primary model is not called again and the answer of the final tuple is the
\* content of that response. A response that carries a tool-call request
\* never does: after one, a final tuple comes from an early stop only.
C20_DoneIffNoToolCallRequest ==
    /\ (response # NoResponse /\ response.tool_calls = <<>> /\ pc # "await_model")
          => /\ pc \in {"await_summary", "final", "returned", "raised"}
             /\ modelCalls = step
             /\ pc \in {"final", "returned"} =>
                   emitted[Len(emitted)][1] = response.content
    /\ (response.tool_calls # <<>> /\ pc \in {"await_summary", "final", "returned"})
          => /\ early_stop_evaluation.should_stop
             /\ tool_steps[Len(tool_steps)].step = step

\* The steps of the turn whose join has completed.
JoinedSteps == { k \in 1..Len(tool_steps) : tool_steps[k].joined }

\* C21: the tuples come in this order: for each step with tool calls, in step
\* order, one tuple when the tool task has been created and before the join,
\* one after the join, both with the step's processing text and the summary
\* the turn was entered with; then, in a turn that completes, one final tuple
\* with the answer and the new summary, and nothing after it.
C21_TuplesInStepOrderThenFinal ==
    /\ Len(emitted) = Len(tool_steps) + Cardinality(JoinedSteps)
                      + (IF pc \in {"final", "returned"} THEN 1 ELSE 0)
    /\ \A k \in 1..Len(tool_steps) :
          /\ k < Len(tool_steps) => tool_steps[k].joined
          /\ tool_steps[k].step = k
          /\ emitted[2 * k - 1][3] = current_summary
          /\ tool_steps[k].joined =>
                /\ emitted[2 * k][1] = emitted[2 * k - 1][1]
                /\ emitted[2 * k][3] = current_summary
    /\ pc = "yield1" => ~tool_steps[Len(tool_steps)].joined
    /\ pc = "yield1" =>
          emitted[Len(emitted)][1] = ProcessingInfo(tool_task.calls)
    /\ pc = "yield2" => tool_steps[Len(tool_steps)].joined
    /\ pc \in {"final", "returned"} =>
          /\ JoinedSteps = 1..Len(tool_steps)
          /\ Len(emitted) = 2 * Len(tool_steps) + 1
          /\ emitted[Len(emitted)][1] = final_response
          /\ emitted[Len(emitted)][3] = "new summary"

\* A turn completed by the final answer of the model after a step with two
\* tool calls and no early stop: three tuples.
C21_Witness ==
    /\ pc = "returned"
    /\ Len(tool_steps) = 1
    /\ tool_steps[1].n = 2
    /\ Len(emitted) = 3
    /\ emitted[3][1] = "the pods are fine"

\* Both children of the join of the current step have completed: the tool
\* task has returned with one finished execution per requested call, and the
\* evaluation (real or default) has returned.
StepCompleted ==
    /\ tool_task.st = "done"
    /\ Len(execs) = Len(tool_task.calls)
    /\ \A k \in 1..Len(execs) : execs[k].finished
    /\ Len(tool_task.results) = Len(tool_task.calls)
    /\ early_stop_evaluator.st = "done"

\* C22: in a step with tool calls, from the first tuple until both the tool
\* executions and the evaluation have completed, the loop does nothing more:
\* no decision on early stop, no message appended, no model call, no tuple.
C22_JoinIsABarrier ==
    [][ (pc \in {"yield1", "await_gather"} /\ ~StepCompleted) =>
           /\ pc' \in {"yield1", "await_gather", "raised"}
           /\ messages' = messages
           /\ modelCalls' = modelCalls
           /\ emitted' = emitted
           /\ early_stop_evaluation' = early_stop_evaluation
           /\ early_stop_info' = early_stop_info
           /\ final_response' = final_response ]_vars

\* The join of a first step with one call has returned: the evaluator model
\* was called and the command has finished.
C22_Witness ==
    /\ pc = "yield2"
    /\ early_stop_evaluator.kind = "should_stop_early"
    /\ tool_steps[Len(tool_steps)].evaluator_calls = 1
    /\ StepCompleted

\* C23: within a turn the list sent to the primary model only grows, and only
\* at a new model call: the list of a call is the list of the previous call
\* followed by the assistant tool-call message and one tool message per
\* requested call, in request order.
C23_MessagesAppendOnly ==
    [][ pc # "start" =>
          /\ modelCalls' # modelCalls => messages' # messages
          /\ messages' # messages =>
                LET n == Len(messages)
                    tool_calls == response.tool_calls
                IN  /\ modelCalls' = modelCalls + 1
                    /\ Len(messages') = n + 1 + Len(tool_calls)
                    /\ SubSeq(messages', 1, n) = messages
                    /\ messages'[n + 1].role = "assistant"
                    /\ messages'[n + 1].tool_calls = tool_calls
                    /\ \A i \in 1..Len(tool_calls) :
                          /\ messages'[n + 1 + i].role = "tool"
                          /\ messages'[n + 1 + i].tool_call_id = tool_calls[i].id
      ]_vars

\* The second model call of a turn, after a step with two tool calls: the
\* entry messages followed by the tool-call message and two tool messages.
C23_Witness ==
    /\ pc = "await_model"
    /\ modelCalls = 2
    /\ tool_steps[1].n = 2
    /\ Len(messages) = Len(EntryMessages) + 3
    /\ messages[Len(EntryMessages) + 3].role = "tool"

\* C24: the status text of the tuple after the join is the report of the
\* step's evaluation (should-stop value and reasoning) exactly when the
\* evaluator model was called in that step, whatever reasoning it returned.
C24_StatusReplacedIffEvaluationRan ==
    \A k \in JoinedSteps :
       (tool_steps[k].evaluator_calls > 0)
          <=> (emitted[2 * k][2] = EarlyStopReport(tool_steps[k].evaluation))

\* C26: when a turn has ended, by its final tuple or by an error raised out of
\* the generator, the tool task it created has ended and no command process
\* it started is running.
C26_NothingRunningWhenTurnEnds ==
    pc \in {"final", "returned", "raised"} =>
       /\ tool_task.st \in {"none", "done", "failed"}
       /\ process.st # "running"

\* C27: once the loop has its answer (early stop or DONE) and is no longer
\* waiting for the summary, the final tuple carrying that answer has been
\* emitted, whether the summarizer run succeeded or failed.
C27_SummarizerFailureKeepsAnswer ==
    (final_response # "" /\ pc # "await_summary") =>
       /\ pc \in {"final", "returned"}
       /\ emitted # <<>>
       /\ emitted[Len(emitted)][1] = final_response

\* The flags of the optional parameters of `tool` in the order the command
\* carries them, with the values the caller passed.
OptionalParameters(tool, a) ==
    IF tool = "run_kubectl_impl"
    THEN [flags |-> <<"--namespace", "--context", "--kubeconfig">>,
          values |-> <<a.namespace, a.context, a.kubeconfig>>]
    ELSE [flags |-> <<"--namespace", "--kube-context", "--kubeconfig",
                      "--repository-config", "--registry-config">>,
          values |-> <<a.namespace, a.context, a.kubeconfig, a.repo_config,
                       a.registry_config>>]

RECURSIVE FlagPairs(_, _)
\* One flag/value pair per populated parameter, in the order of `flags`.
FlagPairs(flags, values) ==
    IF flags = <<>> THEN <<>>
    ELSE (IF values[1] \in {None, <<"">>} THEN <<>>
          ELSE <<flags[1], values[1][1]>>)
         \o FlagPairs(Tail(flags), Tail(values))

\* C25: the cmd of a returned ExecutionResult is the resolved program path,
\* then the caller's arguments in their order, then one flag/value pair per
\* populated optional parameter in the fixed order of the tool; an absent or
\* empty parameter adds nothing.
C25_CmdIsPathArgsThenPopulatedFlags ==
    executor_call.st = "returned" =>
       LET a == executor_call.arguments
           p == OptionalParameters(executor_call.tool, a)
           path == IF executor_call.tool = "run_kubectl_impl"
                   THEN "/usr/bin/kubectl" ELSE "/usr/bin/helm"
       IN  executor_call.result[1].cmd
              = (<<path>> \o a.args) \o FlagPairs(p.flags, p.values)

\* A helm call returned with namespace, repository config and registry config
\* given, the context empty and no kubeconfig: three flag/value pairs.
C25_Witness ==
    /\ executor_call.st = "returned"
    /\ executor_call.tool = "run_helm_impl"
    /\ executor_call.arguments.namespace = <<"kube-system">>
    /\ executor_call.arguments.context = <<"">>
    /\ executor_call.arguments.kubeconfig = None
    /\ executor_call.arguments.repo_config = <<"repositories.yaml">>
    /\ executor_call.arguments.registry_config = <<"registry.json">>
    /\ Len(executor_call.result[1].cmd) = 8

\* C28: once the chat has been cleared, the stored running summary stays
\* empty until a turn submitted after the clear delivers its final tuple; a
\* turn in flight when the chat was cleared writes no summary back.
C28_ClearedSummaryStaysEmpty ==
    front.cleared => front.current_summary = ""

\* C29: grafana_api_request_impl never raises: it returns an ExecutionResult
\* whose returncode is 0 exactly when a response with status below 400 was
\* received, the status for a response with status 400 or above, and 1 with
\* empty stdout for a failure without a response.
C29_GrafanaRequestNeverRaises ==
    /\ grafana_call.st # "failed"
    /\ grafana_call.st = "returned" =>
          LET r == grafana_call.result[1]
              o == grafana_call.outcome[1]
          IN  /\ (r.returncode = 0) <=> (o.kind = "response" /\ o.status < 400)
              /\ (o.kind = "response" /\ o.status >= 400) =>
                    r.returncode = o.status
              /\ o.kind # "response" =>
                    (r.returncode = 1 /\ r.stdout = <<>>)

====
